---------------------------- MODULE Spec2Model ----------------------------
(***************************************************************************)
(* Model of MPESAMessageParser (src/mpesa-message-parser.py).              *)
(*                                                                         *)
(* A message is a TLA+ string, i.e. a sequence of characters.  The two     *)
(* compiled regular expressions of __init__ are translated fragment by     *)
(* fragment into operators over a string s and a position i (the index of  *)
(* the next character to consume); an operator returns the position after  *)
(* the fragment, or 0 when the fragment does not match at i.               *)
(***************************************************************************)
EXTENDS Integers, Sequences, FiniteSets, TLC

(***************************************************************************)
(* Characters and character classes of the regular expressions.            *)
(***************************************************************************)
UpperStr == "ABCDEFGHIJKLMNOPQRSTUVWXYZ"
LowerStr == "abcdefghijklmnopqrstuvwxyz"
DigitStr == "0123456789"

Upper == {SubSeq(UpperStr, i, i) : i \in 1..Len(UpperStr)}
Lower == {SubSeq(LowerStr, i, i) : i \in 1..Len(LowerStr)}
Digit == {SubSeq(DigitStr, i, i) : i \in 1..Len(DigitStr)}

\* \s
WS == {" ", "\n", "\t"}
\* [\d,.]
AmtClass == Digit \cup {",", "."}
\* [A-Z0-9] under re.IGNORECASE
IdClass == Upper \cup Lower \cup Digit

\* re.IGNORECASE: both sides of a comparison are case-folded
LowerMap == [c \in Upper |->
               LET i == CHOOSE j \in 1..Len(UpperStr) : SubSeq(UpperStr, j, j) = c
               IN  SubSeq(LowerStr, i, i)]
Fold(c) == IF c \in Upper THEN LowerMap[c] ELSE c

CharAt(s, i) == IF i >= 1 /\ i <= Len(s) THEN SubSeq(s, i, i) ELSE ""

(***************************************************************************)
(* Regular-expression fragments.                                           *)
(***************************************************************************)
\* A literal of the IGNORECASE pattern; a blank in lit stands for \s.
LitI(s, i, lit) ==
    IF /\ i >= 1
       /\ i + Len(lit) - 1 <= Len(s)
       /\ \A k \in 1..Len(lit) :
             LET p == SubSeq(lit, k, k)
                 c == SubSeq(s, i + k - 1, i + k - 1)
             IN  IF p = " " THEN c \in WS ELSE Fold(c) = Fold(p)
    THEN i + Len(lit)
    ELSE 0

\* A literal of the case-sensitive failed_pattern; a blank stands for \s.
LitS(s, i, lit) ==
    IF /\ i >= 1
       /\ i + Len(lit) - 1 <= Len(s)
       /\ \A k \in 1..Len(lit) :
             LET p == SubSeq(lit, k, k)
                 c == SubSeq(s, i + k - 1, i + k - 1)
             IN  IF p = " " THEN c \in WS ELSE c = p
    THEN i + Len(lit)
    ELSE 0

\* cls* (greedy): the position after the longest run of cls from i
RECURSIVE Star(_, _, _)
Star(s, i, cls) ==
    IF i = 0 THEN 0
    ELSE IF CharAt(s, i) \in cls THEN Star(s, i + 1, cls) ELSE i

\* cls+ (greedy)
Plus(s, i, cls) == IF i = 0 \/ CharAt(s, i) \notin cls THEN 0 ELSE Star(s, i + 1, cls)

\* cls? (greedy)
Opt(s, i, cls) == IF i = 0 THEN 0 ELSE IF CharAt(s, i) \in cls THEN i + 1 ELSE i

\* cls{n}
RECURSIVE Rep(_, _, _, _)
Rep(s, i, cls, n) ==
    IF i = 0 THEN 0
    ELSE IF n = 0 THEN i
    ELSE IF CharAt(s, i) \in cls THEN Rep(s, i + 1, cls, n - 1) ELSE 0

\* a|b on positions: the first alternative that matches
OrPos(a, b) == IF a # 0 THEN a ELSE b

\* the text of a group that spans [from, to)
Span(s, from, to) == SubSeq(s, from, to - 1)

\* [^stop]* (greedy): the position after the longest run of characters
\* outside stop from i
StarNot(s, i, stop) ==
    IF i = 0 THEN 0
    ELSE LET stops == {k \in i..Len(s) : CharAt(s, k) \in stop}
         IN  IF stops = {} THEN Len(s) + 1
             ELSE CHOOSE k \in stops : \A j \in stops : k <= j

\* [^stop]+ (greedy)
PlusNot(s, i, stop) ==
    IF i = 0 \/ i > Len(s) \/ CharAt(s, i) \in stop THEN 0 ELSE StarNot(s, i + 1, stop)

\* [^stop]*? (lazy) in front of a continuation: the first position at or
\* after i, reached over characters outside stop only, that is one of the
\* positions where the continuation matches; 0 when there is none.
\* .*? is LazyNot with stop = {"\n"}: without re.DOTALL the dot does not
\* match a newline.
LazyNot(s, i, stop, matching) ==
    IF i = 0 THEN 0
    ELSE LET cand == (i..StarNot(s, i, stop)) \cap matching
         IN  IF cand = {} THEN 0 ELSE CHOOSE k \in cand : \A j \in cand : k <= j

\* [^stop]+? (lazy) in front of a continuation
LazyPlusNot(s, i, stop, matching) ==
    IF i = 0 \/ i > Len(s) \/ CharAt(s, i) \in stop THEN 0 ELSE LazyNot(s, i + 1, stop, matching)

\* the positions of s, the one after its last character included
Positions(s) == 1..(Len(s) + 1)

Newline == {"\n"}
Period == {"."}

(***************************************************************************)
(* groupdict(): a function from the names of the groups that took part in  *)
(* the match to the text they captured.                                    *)
(***************************************************************************)
NoGroups == [n \in {} |-> ""]
Group(name, s, from, to) == name :> Span(s, from, to)
OptGroup(name, s, from, to) == IF to = 0 THEN NoGroups ELSE Group(name, s, from, to)

\* the outcome of a sub-pattern: the position after it (0: no match) and
\* the groups it captured
Miss == [end |-> 0, g |-> NoGroups]
Hit(end, g) == [end |-> end, g |-> g]

\* a|b: the first alternative that matches
Or(m, alt) == IF m.end # 0 THEN m ELSE alt

\* (?: ... )?: a group that does not match is skipped at position q
Skippable(q, m) == IF m.end # 0 THEN m ELSE Hit(q, NoGroups)

(***************************************************************************)
(* The nine alternatives of the main pattern, each tried at the position   *)
(* p that follows "<id> Confirmed. ".                                      *)
(***************************************************************************)
FulizaUsed(s, p) ==
    LET a0 == Star(s, LitI(s, p, "Fuliza M-PESA amount is Ksh"), WS)
        a1 == Plus(s, a0, AmtClass)
        b0 == Star(s, LitI(s, Star(s, Opt(s, a1, Period), WS), "Interest charged Ksh"), WS)
        b1 == Plus(s, b0, AmtClass)
        c0 == Star(s, LitI(s, Star(s, Opt(s, b1, Period), WS),
                           "Total Fuliza M-PESA outstanding amount is Ksh"), WS)
        c1 == Plus(s, c0, AmtClass)
        d0 == LitI(s, Star(s, c1, WS), "due on ")
        d1 == Rep(s, LitI(s, Rep(s, LitI(s, Rep(s, d0, Digit, 2), "/"), Digit, 2), "/"), Digit, 2)
    IN  IF d1 = 0 THEN Miss
        ELSE Hit(d1, Group("fuliza_amount", s, a0, a1) @@ Group("fuliza_interest", s, b0, b1)
                     @@ Group("fuliza_total", s, c0, c1) @@ Group("fuliza_due_date", s, d0, d1))

FulizaRepaid(s, p) ==
    LET a0 == Star(s, LitI(s, p, "Ksh"), WS)
        a1 == Plus(s, a0, AmtClass)
        b0 == LitI(s, a1, " from your M-PESA has been used to ")
        b1 == OrPos(LitI(s, b0, "fully"), LitI(s, b0, "partially"))
        b2 == Opt(s, LitI(s, b1, " pay your outstanding Fuliza M-PESA"), Period)
        c0 == Star(s, LitI(s, Star(s, b2, WS), "Available Fuliza M-PESA limit is Ksh"), WS)
        c1 == Plus(s, c0, AmtClass)
    IN  IF b2 = 0 THEN Miss
        ELSE IF c1 = 0 THEN Hit(b2, Group("fuliza_repaid", s, a0, a1))
        ELSE Hit(c1, Group("fuliza_repaid", s, a0, a1) @@ Group("fuliza_limit", s, c0, c1))

\* Everything that follows a lazily matched name in the pattern is optional,
\* so the remainder of the pattern matches at every position.
RestOfPattern(s) == Positions(s)

\* (?:\s(?P<name>\d+))? at position i
PhoneAt(name, s, i) ==
    LET a0 == Opt(s, i, WS)
        a1 == IF a0 = i THEN 0 ELSE Plus(s, a0, Digit)
    IN  IF a1 = 0 THEN Hit(i, NoGroups) ELSE Hit(a1, Group(name, s, a0, a1))

Received(s, p) ==
    LET a0 == LitI(s, p, "You have received Ksh")
        a1 == Plus(s, a0, AmtClass)
        b0 == LitI(s, a1, " from ")
        b1 == LazyPlusNot(s, b0, Digit, RestOfPattern(s))
        ph == PhoneAt("sender_phone", s, b1)
    IN  IF b1 = 0 THEN Miss
        ELSE Hit(ph.end, Group("received_amount", s, a0, a1) @@ Group("sender_name", s, b0, b1)
                         @@ ph.g)

Paid(s, p) ==
    LET a0 == LitI(s, p, "Ksh")
        a1 == Plus(s, a0, AmtClass)
        b0 == LitI(s, a1, " paid to ")
        b1 == PlusNot(s, b0, Period)
    IN  IF b1 = 0 THEN Miss
        ELSE Hit(b1, Group("paid_amount", s, a0, a1) @@ Group("paid_to", s, b0, b1))

Sent(s, p) ==
    LET a0 == LitI(s, p, "Ksh")
        a1 == Plus(s, a0, AmtClass)
        b0 == LitI(s, a1, " sent to ")
        b1 == LazyPlusNot(s, b0, Digit, RestOfPattern(s))
        c0 == LitI(s, b1, " for account ")
        c1 == PlusNot(s, c0, WS)
        c2 == IF c1 = 0 THEN b1 ELSE c1
        ph == PhoneAt("recipient_phone", s, c2)
    IN  IF b1 = 0 THEN Miss
        ELSE Hit(ph.end, Group("sent_amount", s, a0, a1) @@ Group("recipient", s, b0, b1)
                         @@ OptGroup("account_number", s, c0, c1) @@ ph.g)

MShwari(s, p) ==
    LET a0 == LitI(s, p, "Ksh")
        a1 == Plus(s, a0, AmtClass)
        b0 == LitI(s, a1, " transferred ")
        b1 == OrPos(LitI(s, b0, "from"), LitI(s, b0, "to"))
        b2 == LitI(s, b1, " M-Shwari account")
    IN  IF b2 = 0 THEN Miss
        ELSE Hit(b2, Group("mshwari_amount", s, a0, a1) @@ Group("mshwari_direction", s, b0, b1))

Airtime(s, p) ==
    LET a0 == LitI(s, p, "You bought Ksh")
        a1 == Plus(s, a0, AmtClass)
        b0 == LitI(s, a1, " of airtime")
        c0 == LitI(s, b0, " for ")
        c1 == Plus(s, c0, Digit)
    IN  IF b0 = 0 THEN Miss
        ELSE IF c1 = 0 THEN Hit(b0, Group("airtime_amount", s, a0, a1))
        ELSE Hit(c1, Group("airtime_amount", s, a0, a1) @@ Group("airtime_phone", s, c0, c1))

\* \s*Withdraw\s*Ksh(?P<withdraw_amount>[\d,.]+)\sfrom\s(?P<agent_details>[^.]+)
WithdrawBody(s, k) ==
    LET a0 == LitI(s, Star(s, LitI(s, Star(s, k, WS), "Withdraw"), WS), "Ksh")
        a1 == Plus(s, a0, AmtClass)
        b0 == LitI(s, a1, " from ")
        b1 == PlusNot(s, b0, Period)
    IN  IF b1 = 0 THEN Miss
        ELSE Hit(b1, Group("withdraw_amount", s, a0, a1) @@ Group("agent_details", s, b0, b1))

\* (?:on\s[^.]+?)? in front of the body: taken when the body matches after
\* it, skipped otherwise
Withdraw(s, p) ==
    WithdrawBody(s, OrPos(LazyPlusNot(s, LitI(s, p, "on "), Period,
                                      {j \in Positions(s) : WithdrawBody(s, j).end # 0}),
                          p))

BalanceCheck(s, p) ==
    LET a0 == LitI(s, p, "Your account balance was: M-PESA Account : Ksh")
        a1 == Plus(s, a0, AmtClass)
    IN  IF a1 = 0 THEN Miss ELSE Hit(a1, Group("balance_amount", s, a0, a1))

\* the alternation (?: ... | ... ): the first alternative that matches at p
Shape(s, p) ==
    Or(FulizaUsed(s, p),
    Or(FulizaRepaid(s, p),
    Or(Received(s, p),
    Or(Paid(s, p),
    Or(Sent(s, p),
    Or(MShwari(s, p),
    Or(Airtime(s, p),
    Or(Withdraw(s, p),
       BalanceCheck(s, p)))))))))

(***************************************************************************)
(* The five optional trailing groups.  Each is (?:.*? ... )?: a lazy scan  *)
(* from the position q where the previous part ended to the first place    *)
(* where the group's body matches; a group whose body matches nowhere is   *)
(* skipped and leaves the position at q.                                   *)
(***************************************************************************)
\* (?:\sis)?\sKsh\s* after the word "balance": the position of the amount
BalanceTail(s, a) ==
    Star(s, OrPos(LitI(s, LitI(s, a, " is"), " Ksh"), LitI(s, a, " Ksh")), WS)

\* (?:New\s)?(?:M-PESA\s)?balance at k: the position after "balance"
MpesaBalanceHead(s, k) ==
    OrPos(LitI(s, LitI(s, LitI(s, k, "New "), "M-PESA "), "balance"),
    OrPos(LitI(s, LitI(s, k, "New "), "balance"),
    OrPos(LitI(s, LitI(s, k, "M-PESA "), "balance"),
          LitI(s, k, "balance"))))

MpesaBalanceBody(s, k) ==
    LET a0 == BalanceTail(s, MpesaBalanceHead(s, k))
        a1 == Plus(s, a0, AmtClass)
    IN  IF a1 = 0 THEN Miss ELSE Hit(a1, Group("mpesa_balance", s, a0, a1))

MShwariBalanceBody(s, k) ==
    LET m == LitI(s, k, "M-Shwari ")
        h == OrPos(LitI(s, m, "balance"), LitI(s, m, "saving account balance"))
        a0 == BalanceTail(s, h)
        a1 == Plus(s, a0, AmtClass)
    IN  IF a1 = 0 THEN Miss ELSE Hit(a1, Group("mshwari_balance", s, a0, a1))

\* \d{1,2} followed by the literal lit: two digits are tried before one
Digits12Then(s, i, lit) ==
    OrPos(LitI(s, Rep(s, i, Digit, 2), lit), LitI(s, Rep(s, i, Digit, 1), lit))

\* (?P<date>\d{1,2}/\d{1,2}/\d{2}) at i: the position after the date
DateAt(s, i) == Rep(s, Digits12Then(s, Digits12Then(s, i, "/"), "/"), Digit, 2)

\* (?:on\s)? in front of the date: the position where the date starts
DateStart(s, k) ==
    IF DateAt(s, LitI(s, k, "on ")) # 0 THEN LitI(s, k, "on ") ELSE k

DateBody(s, k) ==
    LET d0 == DateStart(s, k)
        d1 == DateAt(s, d0)
        t0 == LitI(s, d1, " at ")
        t1 == Star(s, Rep(s, Digits12Then(s, t0, ":"), Digit, 2), WS)
        t2 == LitI(s, Rep(s, t1, {"A", "P", "a", "p"}, 1), "M")
    IN  IF d1 = 0 THEN Miss
        ELSE IF t2 = 0 THEN Hit(d1, Group("date", s, d0, d1))
        ELSE Hit(t2, Group("date", s, d0, d1) @@ Group("time", s, t0, t2))

\* Transaction\scost(?:\s|,\s)?Ksh(?P<transaction_cost>\.?\d+\.?\d*)?
CostBody(s, k) ==
    LET a == LitI(s, k, "Transaction cost")
        c0 == OrPos(LitI(s, LitI(s, a, " "), "Ksh"),
              OrPos(LitI(s, LitI(s, a, ", "), "Ksh"), LitI(s, a, "Ksh")))
        c1 == Star(s, Opt(s, Plus(s, Opt(s, c0, Period), Digit), Period), Digit)
    IN  IF c0 = 0 THEN Miss
        ELSE IF c1 = 0 THEN Hit(c0, NoGroups)
        ELSE Hit(c1, Group("transaction_cost", s, c0, c1))

LimitBody(s, k) ==
    LET a0 == LitI(s, k, "Amount you can transact within the day is ")
        a1 == Plus(s, a0, AmtClass)
    IN  IF a1 = 0 THEN Miss ELSE Hit(a1, Group("daily_limit", s, a0, a1))

MpesaBalance(s, q) ==
    Skippable(q, MpesaBalanceBody(s, LazyNot(s, q, Newline,
                                {j \in Positions(s) : MpesaBalanceBody(s, j).end # 0})))

MShwariBalance(s, q) ==
    Skippable(q, MShwariBalanceBody(s, LazyNot(s, q, Newline,
                                {j \in Positions(s) : MShwariBalanceBody(s, j).end # 0})))

DateTime(s, q) ==
    Skippable(q, DateBody(s, LazyNot(s, q, Newline,
                                {j \in Positions(s) : DateBody(s, j).end # 0})))

Cost(s, q) ==
    Skippable(q, CostBody(s, LazyNot(s, q, Newline,
                                {j \in Positions(s) : CostBody(s, j).end # 0})))

Limit(s, q) ==
    Skippable(q, LimitBody(s, LazyNot(s, q, Newline,
                                {j \in Positions(s) : LimitBody(s, j).end # 0})))

(***************************************************************************)
(* self.pattern.search(message).  The pattern is the transaction id and    *)
(* the marker, one of the nine alternatives, and the five optional groups. *)
(* The optional groups match at every position, so the search succeeds at  *)
(* the leftmost position where id, marker and an alternative match.        *)
(***************************************************************************)
IdLen == 10

\* (?P<transaction_id>[A-Z0-9]{10})\s+[Cc]onfirmed\.?\s* at i: the position
\* after it
HeadEnd(s, i) ==
    Star(s, Opt(s, LitI(s, Plus(s, Rep(s, i, IdClass, IdLen), WS), "confirmed"), Period), WS)

\* id, marker and alternative at i
WithId(s, i, sh) ==
    IF sh.end = 0 THEN Miss
    ELSE Hit(sh.end, Group("transaction_id", s, i, i + IdLen) @@ sh.g)

HeadAndShape(s, i) == WithId(s, i, Shape(s, HeadEnd(s, i)))

\* the least position of a set of positions, 0 when there is none
Least(S) == IF S = {} THEN 0 ELSE CHOOSE i \in S : \A j \in S : i <= j

\* search(): the leftmost position at which the pattern matches, 0 when
\* there is none
SearchStart(s) == Least({i \in 1..Len(s) : HeadAndShape(s, i).end # 0})

\* the match extended by one of the optional groups
Extended(m, grp) == Hit(grp.end, m.g @@ grp.g)

(***************************************************************************)
(* self.failed_pattern, which is compiled without re.IGNORECASE.           *)
(***************************************************************************)
FailedPhrases ==
    { "You do not have enough money",
      "Insufficient funds in your M-PESA account",
      "You have insufficient funds",
      "Insufficient funds in your M-PESA account as well as Fuliza M-PESA",
      "You have insufficient funds in your M-Shwari account",
      "You have reached your Fuliza M-PESA limit",
      "Your Fuliza M-PESA limit is not available at this time" }

FailedAt(s, i) == \E ph \in FailedPhrases : LitS(s, LitS(s, i, "Failed. "), ph) # 0

\* failed_pattern.match(message) in place of search: the rule is only tried
\* at the start of the message
FailedSearchAtStart(s) == FailedAt(s, 1)

\* failed_pattern.search(message) is not None
FailedSearch(s) == \E i \in 1..Len(s) : FailedAt(s, i)

(***************************************************************************)
(* str methods and float() as clean_amount uses them.  A float is          *)
(* represented by the decimal m / 10^e in lowest terms (e = 0 or m not a   *)
(* multiple of 10); the texts of the model are short enough for the        *)
(* conversion to be exact.                                                 *)
(***************************************************************************)
\* s.replace(c, '')
RECURSIVE Remove(_, _)
Remove(s, c) ==
    IF s = "" THEN ""
    ELSE IF Head(s) = c THEN Remove(Tail(s), c)
    ELSE Head(s) \o Remove(Tail(s), c)

\* s.strip(): whitespace removed at both ends
RECURSIVE LStrip(_)
LStrip(s) == IF s # "" /\ Head(s) \in WS THEN LStrip(Tail(s)) ELSE s

RECURSIVE RStrip(_, _)
RStrip(s, cls) ==
    IF s # "" /\ SubSeq(s, Len(s), Len(s)) \in cls THEN RStrip(SubSeq(s, 1, Len(s) - 1), cls)
    ELSE s

Strip(s) == RStrip(LStrip(s), WS)

\* s.count('.')
RECURSIVE CountDots(_)
CountDots(s) ==
    IF s = "" THEN 0 ELSE (IF Head(s) = "." THEN 1 ELSE 0) + CountDots(Tail(s))

\* s.split('.')[0] and s.split('.')[-1]
FirstPart(s) == SubSeq(s, 1, StarNot(s, 1, Period) - 1)

RECURSIVE LastPart(_)
LastPart(s) ==
    IF CountDots(s) = 0 THEN s ELSE LastPart(SubSeq(s, StarNot(s, 1, Period) + 1, Len(s)))

DigitVal(c) == (CHOOSE j \in 1..Len(DigitStr) : SubSeq(DigitStr, j, j) = c) - 1

\* int() of a string of digits ('' counts as 0)
RECURSIVE IntOf(_)
IntOf(s) ==
    IF s = "" THEN 0
    ELSE 10 * IntOf(SubSeq(s, 1, Len(s) - 1)) + DigitVal(SubSeq(s, Len(s), Len(s)))

Dec(m, e) == [m |-> m, e |-> e]
Zero == Dec(0, 0)

\* float(s) for a text over digits and periods: a value, or ValueError
\* when s is not <digits>[.[<digits>]] or .<digits>
Float(s) ==
    LET ip   == SubSeq(s, 1, Star(s, 1, Digit) - 1)
        rest == SubSeq(s, Len(ip) + 1, Len(s))
        fp   == IF rest = "" THEN "" ELSE Tail(rest)
        frac == RStrip(fp, {"0"})
    IN  IF \/ ip = "" /\ fp = ""
           \/ rest # "" /\ Head(rest) # "."
           \/ Star(fp, 1, Digit) # Len(fp) + 1
        THEN [ok |-> FALSE, exc |-> "ValueError"]
        ELSE [ok |-> TRUE, v |-> Dec(IntOf(ip \o frac), Len(frac))]

(***************************************************************************)
(* clean_amount.  The argument is whatever the caller passes: a str        *)
(* ([str |-> TRUE, v |-> text]) or a float ([str |-> FALSE, v |-> value]). *)
(***************************************************************************)
Str(text) == [str |-> TRUE, v |-> text]
Flt(value) == [str |-> FALSE, v |-> value]

\* `not amount_str`: the empty str and the float 0.0 are falsy
Falsy(arg) == IF arg.str THEN arg.v = "" ELSE arg.v = Zero

\* lines 70-82: the text that is handed to float()
Cleaned(text) ==
    LET c1 == Remove(Remove(text, ","), " ")
        c2 == IF c1 # "" /\ Head(c1) = "." THEN "0" \o c1 ELSE c1
        c3 == RStrip(Strip(c2), Period)
    IN  IF CountDots(c3) > 1 THEN FirstPart(c3) \o "." \o LastPart(c3) ELSE c3

clean_amount(arg) ==
    IF Falsy(arg) THEN [ok |-> TRUE, v |-> Zero]
    ELSE IF ~arg.str THEN [ok |-> FALSE, exc |-> "AttributeError"]
    ELSE Float(Cleaned(arg.v))

(***************************************************************************)
(* datetime.strptime for the two formats of parse_message.  A directive    *)
(* accepts one or two digits within its range; the format's blank accepts  *)
(* one or more whitespace characters; the whole text must be consumed; the *)
(* day must exist in the month.                                            *)
(***************************************************************************)
ValueError == [ok |-> FALSE, exc |-> "ValueError"]

LeapYear(y) == y % 4 = 0 /\ (y % 100 # 0 \/ y % 400 = 0)
DaysIn(mo, y) ==
    IF mo = 2 THEN (IF LeapYear(y) THEN 29 ELSE 28)
    ELSE IF mo \in {4, 6, 9, 11} THEN 30 ELSE 31

\* %y: 69..99 are 1969..1999, 00..68 are 2000..2068
Century(yy) == IF yy <= 68 THEN 2000 + yy ELSE 1900 + yy

\* %d, %m, %I: a token of one or two digits with a value in lo..hi
InRange(tok, lo, hi) == Len(tok) \in {1, 2} /\ IntOf(tok) >= lo /\ IntOf(tok) <= hi

\* %M is [0-5]\d|\d: the position after the minute that starts at i
MinuteEnd(s, i) ==
    IF CharAt(s, i) \in {"0", "1", "2", "3", "4", "5"} /\ CharAt(s, i + 1) \in Digit THEN i + 2
    ELSE Rep(s, i, Digit, 1)

\* the pieces of '%d/%m/%y' at the start of s
DatePieces(s) ==
    LET d1 == Star(s, 1, Digit)
        m0 == LitS(s, d1, "/")
        m1 == Star(s, m0, Digit)
        y0 == LitS(s, m1, "/")
        y1 == Rep(s, y0, Digit, 2)
    IN  IF /\ y1 # 0
           /\ InRange(Span(s, 1, d1), 1, 31)
           /\ InRange(Span(s, m0, m1), 1, 12)
           /\ IntOf(Span(s, 1, d1)) <= DaysIn(IntOf(Span(s, m0, m1)), Century(IntOf(Span(s, y0, y1))))
        THEN [end |-> y1, y |-> Century(IntOf(Span(s, y0, y1))),
              mo |-> IntOf(Span(s, m0, m1)), d |-> IntOf(Span(s, 1, d1))]
        ELSE [end |-> 0]

\* datetime.strptime(s, '%d/%m/%y').date()
StrptimeDate(s) ==
    LET dp == DatePieces(s)
    IN  IF dp.end = Len(s) + 1
        THEN [ok |-> TRUE, v |-> [y |-> dp.y, mo |-> dp.mo, d |-> dp.d]]
        ELSE ValueError

\* datetime.strptime(s, '%d/%m/%y %I:%M %p')
StrptimeDateTime(s) ==
    LET dp == DatePieces(s)
        h0 == Plus(s, dp.end, WS)
        h1 == Star(s, h0, Digit)
        n0 == LitS(s, h1, ":")
        n1 == IF n0 = 0 THEN 0 ELSE MinuteEnd(s, n0)
        p0 == Plus(s, n1, WS)
        am == LitI(s, p0, "am")
        pm == LitI(s, p0, "pm")
        h  == IntOf(Span(s, h0, h1))
    IN  IF /\ n1 # 0
           /\ InRange(Span(s, h0, h1), 1, 12)
           /\ Len(s) + 1 \in {am, pm}
        THEN [ok |-> TRUE,
              v |-> [y |-> dp.y, mo |-> dp.mo, d |-> dp.d,
                     H |-> (h % 12) + (IF pm # 0 THEN 12 ELSE 0),
                     Mi |-> IntOf(Span(s, n0, n1))]]
        ELSE ValueError

(***************************************************************************)
(* parse_message, lines 98-160, as functions of the local dict `result`.   *)
(***************************************************************************)
\* lines 98-103: the groups that are not None, each value stripped
Stripped(g) == [k \in DOMAIN g |-> Strip(g[k])]

\* line 106
Status(failed_match) == IF failed_match THEN "FAILED" ELSE "SUCCESS"

\* result.get(key) is truthy
Truthy(result, key) == key \in DOMAIN result /\ result[key] # ""

\* result[raw] in place of result.pop(raw): the raw slot stays in the dict
RetypeKeepingRaw(result, raw, type) ==
    ("transaction_type" :> type) @@ ("amount" :> result[raw]) @@ result

\* result['transaction_type'] = type; result['amount'] = result.pop(raw)
Retype(result, raw, type) ==
    [k \in (DOMAIN result \ {raw}) \cup {"transaction_type", "amount"} |->
        IF k = "transaction_type" THEN type
        ELSE IF k = "amount" THEN result[raw]
        ELSE result[k]]

\* lines 108-138: the if/elif chain
Dispatch(result) ==
    IF Truthy(result, "fuliza_amount") THEN Retype(result, "fuliza_amount", "FULIZA_USED")
    ELSE IF Truthy(result, "fuliza_repaid") THEN Retype(result, "fuliza_repaid", "FULIZA_REPAYMENT")
    ELSE IF Truthy(result, "received_amount") THEN Retype(result, "received_amount", "RECEIVED")
    ELSE IF Truthy(result, "paid_amount") THEN Retype(result, "paid_amount", "PAID")
    ELSE IF Truthy(result, "sent_amount") THEN Retype(result, "sent_amount", "SENT")
    ELSE IF Truthy(result, "mshwari_amount")
         THEN IF "mshwari_direction" \in DOMAIN result /\ result["mshwari_direction"] = "from"
              THEN Retype(result, "mshwari_amount", "MSHWARI_WITHDRAWAL")
              ELSE Retype(result, "mshwari_amount", "MSHWARI_DEPOSIT")
    ELSE IF Truthy(result, "airtime_amount") THEN Retype(result, "airtime_amount", "AIRTIME")
    ELSE IF Truthy(result, "withdraw_amount") THEN Retype(result, "withdraw_amount", "WITHDRAW")
    ELSE IF Truthy(result, "balance_amount") THEN Retype(result, "balance_amount", "BALANCE_CHECK")
    ELSE result

\* lines 141-144
numeric_fields ==
    << "amount", "mpesa_balance", "mshwari_balance", "transaction_cost",
       "daily_limit", "fuliza_interest", "fuliza_total", "fuliza_limit" >>

NumericKeys == {numeric_fields[i] : i \in 1..Len(numeric_fields)}

\* the fields of numeric_fields, in its order, whose conversion raises
FailingFields(result) ==
    {i \in 1..Len(numeric_fields) :
        /\ numeric_fields[i] \in DOMAIN result
        /\ ~clean_amount(Str(result[numeric_fields[i]])).ok}

\* the field at which the loop of lines 145-151 stops
FirstFailing(result) ==
    numeric_fields[CHOOSE i \in FailingFields(result) : \A j \in FailingFields(result) : i <= j]

\* the dict after a loop in which every conversion succeeded
Converted(result) ==
    [k \in DOMAIN result |->
        IF k \in NumericKeys THEN clean_amount(Str(result[k])).v ELSE result[k]]

\* lines 154-158
HasDateTime(result) == "date" \in DOMAIN result /\ "time" \in DOMAIN result
HasDateOnly(result) == "date" \in DOMAIN result /\ "time" \notin DOMAIN result

Timestamp(result) ==
    IF HasDateTime(result) THEN StrptimeDateTime(result["date"] \o " " \o result["time"])
    ELSE StrptimeDate(result["date"])

Dated(result) ==
    IF HasDateTime(result) THEN result @@ ("datetime" :> Timestamp(result).v)
    ELSE IF HasDateOnly(result) THEN ("date" :> Timestamp(result).v) @@ result
    ELSE result

(***************************************************************************)
(* The inputs.  A message is put together from parts: the text in front of *)
(* the transaction id, the id, the confirmation marker, text between the   *)
(* marker and the body, the body of one shape, trailing sections and       *)
(* closing text.  The parts are kept beside the message so that a property *)
(* can speak of what the message was built from.                           *)
(***************************************************************************)
MaxTail == 2       \* trailing sections per message
MaxAmtLen == 3     \* characters of a generated amount text

FailedText == "Failed. You do not have enough money."

Pres    == {"", "xx", FailedText \o " "}
Ids     == {"QAB12CD34E", "qab12cd34e", "QAB12CD34"}
Markers == {" Confirmed. ", " confirmed ", " Completed. "}
Gaps    == {"", "Failed. You have insufficient funds. "}
Posts   == {"", " Failed. You have reached your Fuliza M-PESA limit.",
            " failed. you do not have enough money."}

\* the texts of length 1..n over the characters of alphabet
RECURSIVE Texts(_, _)
Texts(alphabet, n) ==
    IF n = 0 THEN {""}
    ELSE Texts(alphabet, n - 1) \cup
         {c \o w : c \in alphabet, w \in {x \in Texts(alphabet, n - 1) : Len(x) = n - 1}}

AmountTexts ==
    (Texts({"0", "5", ",", "."}, MaxAmtLen) \ {""}) \cup {"1,000.00", "12.0.00", "1.2.3"}

CleanArgs == Texts({"0", "5", ",", ".", " "}, MaxAmtLen) \cup {"1,234.50", "12.0.00"}

Body(shape, text, amt, name, phone) ==
    [shape |-> shape, text |-> text, amt |-> amt, name |-> name, phone |-> phone]

\* one or more bodies of every shape, around the amount text a
Bodies(a) ==
    { Body("FULIZA_USED",
           "Fuliza M-PESA amount is Ksh " \o a \o ". Interest charged Ksh 0.50. "
             \o "Total Fuliza M-PESA outstanding amount is Ksh 100.50 due on 01/03/23.", a, "", ""),
      Body("FULIZA_REPAYMENT",
           "Ksh " \o a \o " from your M-PESA has been used to fully pay your outstanding "
             \o "Fuliza M-PESA. Available Fuliza M-PESA limit is Ksh 500.00.", a, "", ""),
      Body("FULIZA_REPAYMENT",
           "Ksh " \o a \o " from your M-PESA has been used to partially pay your outstanding "
             \o "Fuliza M-PESA.", a, "", ""),
      Body("RECEIVED", "You have received Ksh" \o a \o " from JOHN DOE 0712345678",
           a, "JOHN DOE", "0712345678"),
      Body("RECEIVED", "You have received Ksh" \o a \o " from J 0712345678", a, "J", "0712345678"),
      Body("RECEIVED", "You have received Ksh" \o a \o " from EQUITY BANK", a, "EQUITY BANK", ""),
      Body("PAID", "Ksh" \o a \o " paid to KPLC PREPAID.", a, "", ""),
      Body("SENT", "Ksh" \o a \o " sent to MARY ANN 0722000111", a, "MARY ANN", "0722000111"),
      Body("SENT", "Ksh" \o a \o " sent to K for account 1234", a, "K", ""),
      Body("MSHWARI_WITHDRAWAL", "Ksh" \o a \o " transferred from M-Shwari account", a, "", ""),
      Body("MSHWARI_DEPOSIT", "Ksh" \o a \o " transferred to M-Shwari account", a, "", ""),
      Body("AIRTIME", "You bought Ksh" \o a \o " of airtime", a, "", ""),
      Body("AIRTIME", "You bought Ksh" \o a \o " of airtime for 0712345678", a, "", "0712345678"),
      Body("WITHDRAW", "on 1/2/23 at 3:45 PMWithdraw Ksh" \o a \o " from 1234 - Agent X.", a, "", ""),
      Body("BALANCE_CHECK", "Your account balance was: M-PESA Account : Ksh" \o a, a, "", "") }

Junk == Body("NONE", "Hello there, how are you", "", "", "")

\* a trailing section: the result key it belongs to, its text in the
\* message, the text of its value, and for a date the text of its time
Section(key, text, val, time) == [key |-> key, text |-> text, val |-> val, time |-> time]

AmountSections(a) ==
    { Section("mpesa_balance", "New M-PESA balance is Ksh" \o a \o ".", a, ""),
      Section("mshwari_balance", "M-Shwari balance is Ksh" \o a \o ".", a, ""),
      Section("transaction_cost", "Transaction cost, Ksh" \o a \o ".", a, ""),
      Section("daily_limit", "Amount you can transact within the day is " \o a \o ".", a, "") }

DateSection(date, time) ==
    Section("date", "on " \o date \o (IF time = "" THEN "" ELSE " at " \o time), date, time)

Sections == AmountSections("2,500.00") \cup {DateSection("1/2/23", "3:45 PM"), DateSection("5/6/23", "")}

Dates == {"1/2/23", "31/2/23", "29/2/24", "0/1/23", "1/13/23", "31/12/99"}
Times == {"", "3:45 PM", "3:45PM", "13:45 PM", "12:05 am", "3:75 PM"}

\* sequences of at most n sections with distinct keys
Tails(n) ==
    {tl \in UNION {[1..k -> Sections] : k \in 0..n} :
        \A i, j \in DOMAIN tl : i # j => tl[i].key # tl[j].key}

RECURSIVE TailText(_)
TailText(tl) == IF tl = <<>> THEN "" ELSE " " \o Head(tl).text \o TailText(Tail(tl))

Parts(family, pre, id, marker, gap, body, tl, post) ==
    [family |-> family, pre |-> pre, id |-> id, marker |-> marker, gap |-> gap,
     body |-> body, tail |-> tl, post |-> post]

Standard(family, body, tl) == Parts(family, "", "QAB12CD34E", " Confirmed. ", "", body, tl, "")

Render(pt) == pt.pre \o pt.id \o pt.marker \o pt.gap \o pt.body.text \o TailText(pt.tail) \o pt.post

\* the families of messages
HeadInputs ==
    {Parts("head", pre, id, marker, gap, body, <<>>, post) :
        pre \in Pres, id \in Ids, marker \in Markers, gap \in Gaps,
        body \in {b \in Bodies("100.00") : b.shape = "PAID" \/ b.name = "JOHN DOE"} \cup {Junk},
        post \in Posts}

TailInputs == {Standard("tail", body, tl) : body \in Bodies("1,000.00"), tl \in Tails(MaxTail)}

AmountInputs == {Standard("amount", body, <<>>) : body \in UNION {Bodies(a) : a \in AmountTexts}}

SlotInputs ==
    {Standard("slot", body, <<sec>>) :
        body \in {b \in Bodies("100.00") : b.shape = "PAID"},
        sec \in UNION {AmountSections(a) : a \in AmountTexts}}

DateInputs ==
    {Standard("date", body, <<DateSection(date, time)>>) :
        body \in {b \in Bodies("100.00") : b.shape = "AIRTIME"}, date \in Dates, time \in Times}

MessageInputs == HeadInputs \cup TailInputs \cup AmountInputs \cup SlotInputs \cup DateInputs

NoParts == Parts("none", "", "", "", "", Junk, <<>>, "")

(***************************************************************************)
(* The state: one call of parse_message, or of clean_amount, in progress.  *)
(***************************************************************************)
VARIABLES
    message,       \* the argument of parse_message
    parts,         \* the parts the message was built from
    pc,            \* the position of the call
    failed_match,  \* failed_pattern.search(message) found a match
    match,         \* pattern.search(message): the position reached, the groups captured
    result,        \* the dict `result`; the returned dict once pc = "done"
    outcome,       \* "return" or "raise" once the call is over, "" before
    log,           \* the lines printed by the call
    amount_str,    \* the argument of clean_amount
    once,          \* clean_amount(amount_str)
    twice          \* clean_amount(clean_amount(amount_str))

vars == <<message, parts, pc, failed_match, match, result, outcome, log, amount_str, once, twice>>

NotStr == [str |-> FALSE, v |-> Dec(254, 0)]
NotRun == [ok |-> FALSE, exc |-> ""]

Init ==
    /\ \/ /\ pc = "call"
          /\ \/ \E pt \in MessageInputs : parts = pt /\ message = Str(Render(pt))
             \/ parts = NoParts /\ message = NotStr
          /\ amount_str = ""
       \/ /\ pc = "clean"
          /\ parts = NoParts /\ message = Str("")
          /\ amount_str \in CleanArgs
    /\ failed_match = FALSE
    /\ match = Miss
    /\ result = NoGroups
    /\ outcome = ""
    /\ log = <<>>
    /\ once = NotRun
    /\ twice = NotRun

\* lines 88-89
RejectNonText ==
    /\ pc = "call" /\ ~message.str
    /\ result' = ("error" :> "Input must be a string")
    /\ outcome' = "return"
    /\ pc' = "done"
    /\ UNCHANGED <<message, parts, failed_match, match, log, amount_str, once, twice>>

\* lines 92 and 94: failed_pattern.search, and pattern.search up to the end
\* of the alternative
Search ==
    /\ pc = "call" /\ message.str
    /\ failed_match' = FailedSearch(message.v)
    /\ match' = HeadAndShape(message.v, SearchStart(message.v))
    /\ pc' = IF match'.end = 0 THEN "searched" ELSE "mpesa_balance"
    /\ UNCHANGED <<message, parts, result, outcome, log, amount_str, once, twice>>

\* line 94, pattern line 35
MatchMpesaBalance ==
    /\ pc = "mpesa_balance"
    /\ match' = Extended(match, MpesaBalance(message.v, match.end))
    /\ pc' = "mshwari_balance"
    /\ UNCHANGED <<message, parts, failed_match, result, outcome, log, amount_str, once, twice>>

\* line 94, pattern line 36
MatchMShwariBalance ==
    /\ pc = "mshwari_balance"
    /\ match' = Extended(match, MShwariBalance(message.v, match.end))
    /\ pc' = "date"
    /\ UNCHANGED <<message, parts, failed_match, result, outcome, log, amount_str, once, twice>>

\* line 94, pattern line 39
MatchDateTime ==
    /\ pc = "date"
    /\ match' = Extended(match, DateTime(message.v, match.end))
    /\ pc' = "transaction_cost"
    /\ UNCHANGED <<message, parts, failed_match, result, outcome, log, amount_str, once, twice>>

\* line 94, pattern line 42
MatchCost ==
    /\ pc = "transaction_cost"
    /\ match' = Extended(match, Cost(message.v, match.end))
    /\ pc' = "daily_limit"
    /\ UNCHANGED <<message, parts, failed_match, result, outcome, log, amount_str, once, twice>>

\* line 94, pattern line 45
MatchLimit ==
    /\ pc = "daily_limit"
    /\ match' = Extended(match, Limit(message.v, match.end))
    /\ pc' = "searched"
    /\ UNCHANGED <<message, parts, failed_match, result, outcome, log, amount_str, once, twice>>

\* the status of line 106 set before the check of line 95
NotRecognizedWithStatus ==
    /\ pc = "searched" /\ match.end = 0
    /\ result' = ("error" :> "Message format not recognized")
                    @@ ("status" :> Status(failed_match))
    /\ outcome' = "return"
    /\ pc' = "done"
    /\ UNCHANGED <<message, parts, failed_match, match, log, amount_str, once, twice>>

\* lines 95-96
NotRecognized ==
    /\ pc = "searched" /\ match.end = 0
    /\ result' = ("error" :> "Message format not recognized")
    /\ outcome' = "return"
    /\ pc' = "done"
    /\ UNCHANGED <<message, parts, failed_match, match, log, amount_str, once, twice>>

\* lines 98-106
Extract ==
    /\ pc = "searched" /\ match.end # 0
    /\ result' = Stripped(match.g) @@ ("status" :> Status(failed_match))
    /\ pc' = "extracted"
    /\ UNCHANGED <<message, parts, failed_match, match, outcome, log, amount_str, once, twice>>

\* lines 108-138
SetType ==
    /\ pc = "extracted"
    /\ result' = Dispatch(result)
    /\ pc' = "typed"
    /\ UNCHANGED <<message, parts, failed_match, match, outcome, log, amount_str, once, twice>>

\* lines 145-148, every conversion succeeding
Convert ==
    /\ pc = "typed" /\ FailingFields(result) = {}
    /\ result' = Converted(result)
    /\ pc' = "converted"
    /\ UNCHANGED <<message, parts, failed_match, match, outcome, log, amount_str, once, twice>>

\* lines 149-151: the first conversion that raises is printed and re-raised
ConvertRaise ==
    /\ pc = "typed" /\ FailingFields(result) # {}
    /\ log' = Append(log, "Error converting " \o FirstFailing(result) \o ": "
                            \o result[FirstFailing(result)])
    /\ result' = NoGroups
    /\ outcome' = "raise"
    /\ pc' = "done"
    /\ UNCHANGED <<message, parts, failed_match, match, amount_str, once, twice>>

\* lines 154-160, strptime succeeding or not called
ParseDates ==
    /\ pc = "converted" /\ ("date" \in DOMAIN result => Timestamp(result).ok)
    /\ result' = Dated(result)
    /\ outcome' = "return"
    /\ pc' = "done"
    /\ UNCHANGED <<message, parts, failed_match, match, log, amount_str, once, twice>>

\* lines 156 and 158, strptime raising ValueError
ParseDatesRaise ==
    /\ pc = "converted" /\ "date" \in DOMAIN result /\ ~Timestamp(result).ok
    /\ result' = NoGroups
    /\ outcome' = "raise"
    /\ pc' = "done"
    /\ UNCHANGED <<message, parts, failed_match, match, log, amount_str, once, twice>>

\* clean_amount(amount_str)
CleanOnce ==
    /\ pc = "clean"
    /\ once' = clean_amount(Str(amount_str))
    /\ pc' = "cleaned"
    /\ UNCHANGED <<message, parts, failed_match, match, result, outcome, log, amount_str, twice>>

\* clean_amount applied to the float that clean_amount returned
CleanTwice ==
    /\ pc = "cleaned" /\ once.ok
    /\ twice' = clean_amount(Flt(once.v))
    /\ pc' = "recleaned"
    /\ UNCHANGED <<message, parts, failed_match, match, result, outcome, log, amount_str, once>>

Next ==
    \/ RejectNonText
    \/ Search
    \/ MatchMpesaBalance
    \/ MatchMShwariBalance
    \/ MatchDateTime
    \/ MatchCost
    \/ MatchLimit
    \/ NotRecognized
    \/ Extract
    \/ SetType
    \/ Convert
    \/ ConvertRaise
    \/ ParseDates
    \/ ParseDatesRaise
    \/ CleanOnce
    \/ CleanTwice

Spec == Init /\ [][Next]_vars

(***************************************************************************)
(* What a message was built from, and what a call ended with.              *)
(***************************************************************************)
\* the texts of the inputs that are "Failed." followed by a listed phrasing
FailureTexts ==
    {FailedText \o " ", "Failed. You have insufficient funds. ",
     " Failed. You have reached your Fuliza M-PESA limit."}

HasFailureText(pt) == pt.pre \in FailureTexts \/ pt.gap \in FailureTexts \/ pt.post \in FailureTexts

\* the alphanumeric token that stands in front of the marker
TokenBeforeMarker(pt) == (IF pt.pre = "xx" THEN "xx" ELSE "") \o pt.id

\* no shape of the grammar can match the message
Unrecognizable(pt) ==
    \/ Len(TokenBeforeMarker(pt)) < IdLen
    \/ pt.marker = " Completed. "
    \/ pt.gap # ""
    \/ pt.body.shape = "NONE"

Done == pc = "done"
IsError == Done /\ outcome = "return" /\ "error" \in DOMAIN result
IsRecord == Done /\ outcome = "return" /\ "error" \notin DOMAIN result

Types ==
    {"FULIZA_USED", "FULIZA_REPAYMENT", "RECEIVED", "PAID", "SENT", "MSHWARI_WITHDRAWAL",
     "MSHWARI_DEPOSIT", "AIRTIME", "WITHDRAW", "BALANCE_CHECK"}

RawAmountKeys ==
    {"fuliza_amount", "fuliza_repaid", "received_amount", "paid_amount", "sent_amount",
     "mshwari_amount", "airtime_amount", "withdraw_amount", "balance_amount"}

\* the numeric value of an amount text with its commas removed
ValueOf(text) == Float(Remove(text, ",")).v

\* a well-formed non-negative decimal: digits with at most one decimal
\* point once the thousands separators and the periods that close a
\* sentence are taken away
WellFormedDecimal(text) == Float(RStrip(Remove(text, ","), Period)).ok

(***************************************************************************)
(* The claims.                                                             *)
(***************************************************************************)
C1_Form ==
    /\ parts.family = "tail"
    /\ parts.body.shape = "RECEIVED" /\ parts.body.phone # ""
    /\ Len(parts.tail) = 2
    /\ parts.tail[1].key = "date" /\ parts.tail[1].time # ""
    /\ parts.tail[2].key = "mpesa_balance"

\* C1: a well-formed RECEIVED message "<id> Confirmed. You have received
\* Ksh<amount> from <name> <phone> on <date> at <time> New M-PESA balance is
\* Ksh<bal>" yields a record of type RECEIVED whose amount is the value of
\* <amount> without commas and whose timestamp is <date> combined with <time>.
C1_ReceivedRecord ==
    (Done /\ C1_Form) =>
        /\ IsRecord
        /\ result["transaction_type"] = "RECEIVED"
        /\ result["amount"] = ValueOf(parts.body.amt)
        /\ "datetime" \in DOMAIN result
        /\ result["datetime"] =
              StrptimeDateTime(parts.tail[1].val \o " " \o parts.tail[1].time).v

\* C2: status is computed independently of transaction_type: a returned
\* record has status FAILED exactly when the message contains "Failed."
\* followed by a listed phrasing, SUCCESS otherwise, whatever shape matched;
\* with a PAID body it has status FAILED and type PAID at the same time.
C2_StatusIndependentOfType ==
    IsRecord =>
        /\ result["status"] = (IF HasFailureText(parts) THEN "FAILED" ELSE "SUCCESS")
        /\ (parts.body.shape = "PAID" => result["transaction_type"] = "PAID")

C2_Witness ==
    /\ IsRecord /\ HasFailureText(parts) /\ parts.body.shape = "PAID"
    /\ result["status"] = "FAILED" /\ result["transaction_type"] = "PAID"

\* C3: a text message that no shape of the grammar matches ends in the
\* UnrecognizedFormat error and nothing else (no status, no transaction
\* type), also when the failure rule matched the message.
C3_UnrecognizedIsError ==
    (Done /\ message.str /\ parts.family = "head" /\ Unrecognizable(parts)) =>
        /\ outcome = "return"
        /\ result = ("error" :> "Message format not recognized")

C3_Witness ==
    /\ Done /\ parts.family = "head" /\ parts.body.shape = "NONE"
    /\ parts.id = "QAB12CD34E" /\ parts.marker = " Confirmed. "
    /\ failed_match
    /\ DOMAIN result = {"error"}

\* C4: every returned record carries exactly one transaction_type, one of
\* the ten types, together with the canonical amount; no shape-specific raw
\* amount slot is left in it.
C4_OneTypeAndAmount ==
    IsRecord =>
        /\ "transaction_type" \in DOMAIN result
        /\ result["transaction_type"] \in Types
        /\ "amount" \in DOMAIN result
        /\ DOMAIN result \cap RawAmountKeys = {}

C4_Witness ==
    /\ IsRecord /\ parts.body.shape = "MSHWARI_DEPOSIT"
    /\ result["transaction_type"] = "MSHWARI_DEPOSIT"
    /\ result["amount"] = ValueOf(parts.body.amt)

\* C5: a captured numeric slot whose text is not a well-formed non-negative
\* decimal makes the parse fail: a returned record has no numeric value that
\* comes from a malformed token, and its amount is not negative.
C5_MalformedNumberFails ==
    IsRecord =>
        /\ \A k \in DOMAIN match.g :
              k \in RawAmountKeys \cup NumericKeys => WellFormedDecimal(Strip(match.g[k]))
        /\ result["amount"].m >= 0

\* C6: every failure of a call is returned as a classified error result: no
\* call ends with an exception and no call prints.
C6_FailuresAreReturned == Done => (outcome = "return" /\ log = <<>>)

SectionExtracted(sec) ==
    IF sec.key # "date" THEN sec.key \in DOMAIN result /\ result[sec.key] = ValueOf(sec.val)
    ELSE IF sec.time # ""
         THEN /\ "datetime" \in DOMAIN result
              /\ result["datetime"] = StrptimeDateTime(sec.val \o " " \o sec.time).v
    ELSE "date" \in DOMAIN result /\ result["date"] = StrptimeDate(sec.val).v

\* C7: every optional trailing section that the message carries after the
\* shape body is in the record, for every type and whatever the order of
\* the sections.
C7_SectionsExtracted ==
    (IsRecord /\ parts.family = "tail") =>
        \A i \in DOMAIN parts.tail : SectionExtracted(parts.tail[i])

\* C8: clean_amount is idempotent: when it succeeds on an input, applying it
\* to its own output succeeds and yields the same value.
C8_CleanAmountIdempotent ==
    (pc \in {"cleaned", "recleaned"} /\ once.ok) =>
        (pc = "recleaned" => twice.ok /\ twice.v = once.v)

\* C9: the transaction_id of a returned record is exactly 10 characters,
\* each an uppercase letter or a digit, and is the whole alphanumeric token
\* in front of the marker.
C9_TransactionId ==
    (IsRecord /\ parts.family = "head") =>
        /\ Len(result["transaction_id"]) = IdLen
        /\ \A i \in 1..Len(result["transaction_id"]) :
              CharAt(result["transaction_id"], i) \in Upper \cup Digit
        /\ result["transaction_id"] = TokenBeforeMarker(parts)

NameKey == IF parts.body.shape = "RECEIVED" THEN "sender_name" ELSE "recipient"
PhoneKey == IF parts.body.shape = "RECEIVED" THEN "sender_phone" ELSE "recipient_phone"

\* C10: for a RECEIVED or SENT message the sender_name / recipient of the
\* record is the complete counterparty name of the message, and the
\* sender_phone / recipient_phone is the phone that follows the name.
C10_Counterparty ==
    (IsRecord /\ parts.body.shape \in {"RECEIVED", "SENT"}) =>
        /\ result[NameKey] = parts.body.name
        /\ parts.body.phone # "" =>
              (PhoneKey \in DOMAIN result /\ result[PhoneKey] = parts.body.phone)

=============================================================================
